---- MODULE Spec2Model ----
(***************************************************************************)
(* Outcome determination and settlement of the crypto casino backend:      *)
(* the slots, roulette and blackjack deal/action handlers and the deposit  *)
(* and house-edge handlers of server/routes.ts, and the two storage        *)
(* implementations server/storage.ts (MemStorage) and                      *)
(* server/mongodb-storage.ts (MongoDBStorage).                             *)
(*                                                                         *)
(* Money is held in integer cents (the code keeps 2-decimal strings).      *)
(* Intermediate amounts that the code computes as floating point numbers   *)
(* before calling toFixed(2) are held in hundredths of a cent, so that     *)
(* bet * multiplier * (100 - houseEdge) / 100 is exact; ToFixed2 rounds    *)
(* them to cents.  House edges are integer percentages.  A card is         *)
(* modelled by its value string only: no handler ever reads a suit, and a  *)
(* 52-card deck holds four cards of every value.                           *)
(***************************************************************************)
EXTENDS Integers, Sequences, FiniteSets, TLC

VARIABLES storageImpl, balance, transactions, gameSessions, games, resp, arg, ret,
          inflight

vars == <<storageImpl, balance, transactions, gameSessions, games, resp, arg, ret,
          inflight>>

ledger == <<storageImpl, balance, transactions, gameSessions, games, resp, inflight>>

-----------------------------------------------------------------------------
(* Bounds of the model *)

MaxSessions == 2

MaxDeposits == 1

MaxHandLen == 3

\* Transactions stored in the explored wallet runs
MaxTransactions == 3

\* Withdrawals made in the explored concurrent runs
MaxWithdrawals == 1

-----------------------------------------------------------------------------
(* Number formatting *)

\* Number.prototype.toFixed(2) of an amount given in hundredths of a cent:
\* the nearest cent, a tie going away from zero.
ToFixed2(h) ==
  IF h >= 0 THEN (h + 50) \div 100 ELSE -((50 - h) \div 100)

\* parseFloat of a 2-decimal string, in hundredths of a cent
ParseFloat(cents) == cents * 100

-----------------------------------------------------------------------------
(* Slots outcome *)

SlotsMultiplierNoOuterPair(reels) ==
  IF reels[1] = reels[2] /\ reels[2] = reels[3]
  THEN IF reels[1] = "seven" THEN 100
       ELSE IF reels[1] = "moneybag" THEN 50
       ELSE IF reels[1] = "star" THEN 25
       ELSE 10
  ELSE IF reels[1] = reels[2] \/ reels[2] = reels[3]
       THEN 2
       ELSE 0

symbols == <<"cherry", "orange", "lemon", "grape", "melon", "seven", "moneybag", "star">>

Symbols == {symbols[i] : i \in 1..Len(symbols)}

\* let multiplier = 0; if (...) ... : the raw multiplier of a drawn triple
SlotsMultiplier(reels) ==
  IF reels[1] = reels[2] /\ reels[2] = reels[3]
  THEN IF reels[1] = "seven" THEN 100
       ELSE IF reels[1] = "moneybag" THEN 50
       ELSE IF reels[1] = "star" THEN 25
       ELSE 10
  ELSE IF reels[1] = reels[2] \/ reels[2] = reels[3] \/ reels[1] = reels[3]
       THEN 2
       ELSE 0

-----------------------------------------------------------------------------
(* Roulette outcome *)

redNumbers == {1, 3, 5, 7, 9, 12, 14, 16, 18, 19, 21, 23, 25, 27, 30, 32, 34, 36}

BetTypes == {"red", "black", "even", "odd", "high", "low", "number"}

WheelNumbers == 0..36

\* An optional request field is the empty set when absent, {x} when present.
RouletteOutcomeZeroIsEven(betType, betNumber, result) ==
  IF betType = "red" /\ result \in redNumbers
  THEN [win |-> TRUE, multiplier |-> 2]
  ELSE IF betType = "black" /\ result \notin redNumbers /\ result # 0
  THEN [win |-> TRUE, multiplier |-> 2]
  ELSE IF betType = "even" /\ result % 2 = 0
  THEN [win |-> TRUE, multiplier |-> 2]
  ELSE IF betType = "odd" /\ result % 2 = 1
  THEN [win |-> TRUE, multiplier |-> 2]
  ELSE IF betType = "high" /\ result >= 19 /\ result <= 36
  THEN [win |-> TRUE, multiplier |-> 2]
  ELSE IF betType = "low" /\ result >= 1 /\ result <= 18
  THEN [win |-> TRUE, multiplier |-> 2]
  ELSE IF betType = "number" /\ result \in betNumber
  THEN [win |-> TRUE, multiplier |-> 36]
  ELSE [win |-> FALSE, multiplier |-> 0]

\* the if / else-if chain deciding win and the raw multiplier
RouletteOutcome(betType, betNumber, result) ==
  IF betType = "red" /\ result \in redNumbers
  THEN [win |-> TRUE, multiplier |-> 2]
  ELSE IF betType = "black" /\ result \notin redNumbers /\ result # 0
  THEN [win |-> TRUE, multiplier |-> 2]
  ELSE IF betType = "even" /\ result % 2 = 0 /\ result # 0
  THEN [win |-> TRUE, multiplier |-> 2]
  ELSE IF betType = "odd" /\ result % 2 = 1
  THEN [win |-> TRUE, multiplier |-> 2]
  ELSE IF betType = "high" /\ result >= 19 /\ result <= 36
  THEN [win |-> TRUE, multiplier |-> 2]
  ELSE IF betType = "low" /\ result >= 1 /\ result <= 18
  THEN [win |-> TRUE, multiplier |-> 2]
  ELSE IF betType = "number" /\ result \in betNumber
  THEN [win |-> TRUE, multiplier |-> 36]
  ELSE [win |-> FALSE, multiplier |-> 0]

-----------------------------------------------------------------------------
(* Blackjack cards and hand values *)

values == <<"A", "2", "3", "4", "5", "6", "7", "8", "9", "10", "J", "Q", "K">>

Values == {values[i] : i \in 1..Len(values)}

\* parseInt(card.value) of a number card
ParseInt(v) ==
  CASE v = "2" -> 2 [] v = "3" -> 3 [] v = "4" -> 4 [] v = "5" -> 5
    [] v = "6" -> 6 [] v = "7" -> 7 [] v = "8" -> 8 [] v = "9" -> 9
    [] v = "10" -> 10

\* the for loop of calculateHandValue in the deal handler: <<value, aces>>
RECURSIVE SumCardsDeal(_, _, _, _)
SumCardsDeal(hand, i, value, aces) ==
  IF i > Len(hand) THEN <<value, aces>>
  ELSE IF hand[i] = "A" THEN SumCardsDeal(hand, i + 1, value + 11, aces + 1)
  ELSE IF hand[i] \in {"J", "Q", "K"} THEN SumCardsDeal(hand, i + 1, value + 10, aces)
  ELSE SumCardsDeal(hand, i + 1, value + ParseInt(hand[i]), aces)

AdjustAcesOnce(value, aces) ==
  IF value > 21 /\ aces > 0 THEN value - 10 ELSE value

\* while (value > 21 && aces > 0) { value -= 10; aces--; }
RECURSIVE AdjustAcesDeal(_, _)
AdjustAcesDeal(value, aces) ==
  IF value > 21 /\ aces > 0 THEN AdjustAcesDeal(value - 10, aces - 1) ELSE value

calculateHandValueDeal(hand) ==
  LET s == SumCardsDeal(hand, 1, 0, 0) IN AdjustAcesDeal(s[1], s[2])

\* the copy of calculateHandValue in the action handler
RECURSIVE SumCardsAction(_, _, _, _)
SumCardsAction(hand, i, value, aces) ==
  IF i > Len(hand) THEN <<value, aces>>
  ELSE IF hand[i] = "A" THEN SumCardsAction(hand, i + 1, value + 11, aces + 1)
  ELSE IF hand[i] \in {"J", "Q", "K"} THEN SumCardsAction(hand, i + 1, value + 10, aces)
  ELSE SumCardsAction(hand, i + 1, value + ParseInt(hand[i]), aces)

RECURSIVE AdjustAcesAction(_, _)
AdjustAcesAction(value, aces) ==
  IF value > 21 /\ aces > 0 THEN AdjustAcesAction(value - 10, aces - 1) ELSE value

calculateHandValueAction(hand) ==
  LET s == SumCardsAction(hand, 1, 0, 0) IN AdjustAcesAction(s[1], s[2])

-----------------------------------------------------------------------------
(* Ledger store *)

Users == {1, 2}

\* MemStorage.initializeGames
MemDefaultGames ==
  <<[type |-> "slots", houseEdge |-> 50, minBet |-> 100, maxBet |-> 100000, isActive |-> TRUE],
    [type |-> "roulette", houseEdge |-> 50, minBet |-> 100, maxBet |-> 50000, isActive |-> TRUE],
    [type |-> "blackjack", houseEdge |-> 50, minBet |-> 500, maxBet |-> 100000, isActive |-> TRUE]>>

\* MongoDBStorage.initialize
MongoDefaultGames ==
  <<[type |-> "slots", houseEdge |-> 50, minBet |-> 100, maxBet |-> 10000, isActive |-> TRUE],
    [type |-> "roulette", houseEdge |-> 50, minBet |-> 100, maxBet |-> 50000, isActive |-> TRUE],
    [type |-> "blackjack", houseEdge |-> 50, minBet |-> 500, maxBet |-> 100000, isActive |-> TRUE]>>

\* storage.getGame(id) !== undefined
GameExists(id) == id \in DOMAIN games

\* updateUserBalance (the same arithmetic in both implementations):
\* (parseFloat(user.balance) + amount).toFixed(2); amount in hundredths of a cent
updateUserBalance(bal, userId, amount) ==
  [bal EXCEPT ![userId] = ToFixed2(ParseFloat(bal[userId]) + amount)]

\* createTransaction: the record is stored under the next id
createTransaction(txs, transaction) == Append(txs, transaction)

\* MemStorage.createGameSession
MemCreateGameSession(session) ==
  /\ gameSessions' = Append(gameSessions, session)
  /\ balance' = updateUserBalance(balance, session.userId, ParseFloat(session.win))
  /\ transactions' = createTransaction(transactions,
       [userId |-> session.userId, amount |-> session.win, frac |-> 0,
        type |-> IF ParseFloat(session.win) > 0 THEN "win" ELSE "loss",
        status |-> "completed", gameId |-> session.gameId])

\* MongoDBStorage.createGameSession
MongoCreateGameSession(session) ==
  /\ gameSessions' = Append(gameSessions, session)
  /\ UNCHANGED <<balance, transactions>>

\* storage.createGameSession on the implementation selected at startup
createGameSession(session) ==
  IF storageImpl = "mem" THEN MemCreateGameSession(session)
  ELSE MongoCreateGameSession(session)

-----------------------------------------------------------------------------
(* Responses.  resp is the outcome of the last request: the HTTP status    *)
(* code, the fields of the JSON body, and the handler's locals that decide *)
(* them (reqBalance is req.user.balance, read when the request starts;     *)
(* rawMultiplier is multiplier before the house edge is applied; netWin is *)
(* the unrounded netWin in hundredths of a cent; playerValue, dealerValue  *)
(* are the hand values the handler stores in the session's result, and     *)
(* playerCards, dealerCards the lengths of the two hands; reqBet and        *)
(* reqPlayerCards are gameState.bet and the length of gameState.playerHand *)
(* as the client sent them; amount is the amount of a deposit or withdraw   *)
(* request, transactionId the :id of an approve or reject request; betType *)
(* and betNumber are those of a roulette body, betNumber being the empty   *)
(* set when the body has none; isActive is that of a status body; reqDeck  *)
(* is gameState.deck.length as the client sent it).                        *)

NoResp ==
  [kind |-> "none", code |-> 0, userId |-> 0, gameId |-> 0, action |-> "none",
   bet |-> 0, status |-> "none", netWin |-> 0, rawMultiplier |-> 0,
   houseEdge |-> 0, reqBalance |-> 0, balance |-> 0,
   playerValue |-> 0, dealerValue |-> 0, playerCards |-> 0, dealerCards |-> 0,
   dealerTurn |-> FALSE, reqBet |-> 0, reqPlayerCards |-> 0,
   amount |-> 0, transactionId |-> 0, betType |-> "none", betNumber |-> {},
   isActive |-> FALSE, reqDeck |-> 0]

\* return res.status(code).json({ message }): nothing is stored
Reject(kind, code, userId, gameId, bet) ==
  /\ resp' = [NoResp EXCEPT !.kind = kind, !.code = code, !.userId = userId,
                            !.gameId = gameId, !.bet = bet,
                            !.reqBalance = balance[userId]]
  /\ UNCHANGED <<storageImpl, balance, transactions, gameSessions, games>>

ValidateBetIgnoresBalance(userId, gameId, bet, type) ==
  IF bet <= 0 THEN 400
  ELSE IF ~GameExists(gameId) THEN 404
  ELSE IF ~games[gameId].isActive THEN 404
  ELSE IF games[gameId].type # type THEN 400
  ELSE IF bet < games[gameId].minBet \/ bet > games[gameId].maxBet THEN 400
  ELSE 0

ValidateBetIgnoresActive(userId, gameId, bet, type) ==
  IF bet <= 0 THEN 400
  ELSE IF ~GameExists(gameId) THEN 404
  ELSE IF games[gameId].type # type THEN 400
  ELSE IF bet < games[gameId].minBet \/ bet > games[gameId].maxBet THEN 400
  ELSE IF balance[userId] < bet THEN 400
  ELSE 0

\* The checks every play/deal handler makes before drawing an outcome:
\* the HTTP status of the rejection, or 0 when the bet is accepted.
ValidateBet(userId, gameId, bet, type) ==
  IF bet <= 0 THEN 400
  ELSE IF ~GameExists(gameId) THEN 404
  ELSE IF ~games[gameId].isActive THEN 404
  ELSE IF games[gameId].type # type THEN 400
  ELSE IF bet < games[gameId].minBet \/ bet > games[gameId].maxBet THEN 400
  ELSE IF balance[userId] < bet THEN 400
  ELSE 0

-----------------------------------------------------------------------------
(* Wallet and admin handlers *)

\* The amount of a deposit or withdraw body.  insertTransactionSchema takes
\* it from a numeric column, so the schema accepts any string and rejects a
\* JSON number; parseFloat then turns the string into a number.  cents is
\* that number cut after its second decimal and frac the rest of it, in
\* hundredths of a cent ("0.004" is 0 cents and 40 hundredths).
AmountString(cents) == [isString |-> TRUE, cents |-> cents, frac |-> 0]

AmountNumber(cents) == [isString |-> FALSE, cents |-> cents, frac |-> 0]

AmountFine(cents, frac) == [isString |-> TRUE, cents |-> cents, frac |-> frac]

\* parseFloat(validatedData.amount.toString()), in hundredths of a cent
AmountValue(amount) == ParseFloat(amount.cents) + amount.frac

\* parseFloat(transaction.amount.toString()), in hundredths of a cent
TransactionValue(transaction) == ParseFloat(transaction.amount) + transaction.frac

\* req.user.isAdmin for the users who can send a request: createUser stores
\* isAdmin: false in both implementations, and only MongoDBStorage creates
\* an admin account (MemStorage never holds a user with isAdmin: true)
AdminFlags == IF storageImpl = "mongo" THEN BOOLEAN ELSE {FALSE}

\* updateTransactionStatus on a stored transaction
updateTransactionStatus(txs, id, status) == [txs EXCEPT ![id].status = status]

\* POST /api/transactions/deposit
Deposit(userId, amount) ==
  IF ~amount.isString
  THEN /\ resp' = [NoResp EXCEPT !.kind = "deposit", !.code = 400, !.userId = userId,
                                 !.amount = amount.cents,
                                 !.reqBalance = balance[userId]]
       /\ UNCHANGED <<storageImpl, balance, transactions, gameSessions, games>>
  ELSE
  /\ transactions' = createTransaction(transactions,
       [userId |-> userId, amount |-> amount.cents, frac |-> amount.frac,
        type |-> "deposit", status |-> "completed", gameId |-> 0])
  /\ balance' = updateUserBalance(balance, userId, AmountValue(amount))
  /\ resp' = [NoResp EXCEPT !.kind = "deposit", !.code = 201, !.userId = userId,
                            !.amount = amount.cents,
                            !.reqBalance = balance[userId],
                            !.balance = balance'[userId]]
  /\ UNCHANGED <<storageImpl, gameSessions, games>>

\* POST /api/transactions/withdraw; hasAddress: the body has a non-empty
\* address string
Withdraw(userId, amount, hasAddress) ==
  IF ~amount.isString \/ ~hasAddress
     \/ ParseFloat(balance[userId]) < AmountValue(amount)
  THEN /\ resp' = [NoResp EXCEPT !.kind = "withdraw", !.code = 400, !.userId = userId,
                                 !.amount = amount.cents,
                                 !.reqBalance = balance[userId]]
       /\ UNCHANGED <<storageImpl, balance, transactions, gameSessions, games>>
  ELSE
  /\ transactions' = createTransaction(transactions,
       [userId |-> userId, amount |-> -amount.cents, frac |-> -amount.frac,
        type |-> "withdrawal", status |-> "pending", gameId |-> 0])
  /\ balance' = updateUserBalance(balance, userId, -AmountValue(amount))
  /\ resp' = [NoResp EXCEPT !.kind = "withdraw", !.code = 201, !.userId = userId,
                            !.amount = amount.cents,
                            !.reqBalance = balance[userId],
                            !.balance = balance'[userId]]
  /\ UNCHANGED <<storageImpl, gameSessions, games>>

\* Math.abs
Abs(x) == IF x < 0 THEN -x ELSE x

\* POST /api/admin/transactions/:id/approve
ApproveTransaction(isAdmin, transactionId) ==
  IF ~isAdmin \/ transactionId \notin DOMAIN transactions
  THEN /\ resp' = [NoResp EXCEPT !.kind = "approve",
                                 !.code = IF ~isAdmin THEN 403 ELSE 500,
                                 !.transactionId = transactionId]
       /\ UNCHANGED <<storageImpl, balance, transactions, gameSessions, games>>
  ELSE /\ transactions' = updateTransactionStatus(transactions, transactionId, "completed")
       /\ resp' = [NoResp EXCEPT !.kind = "approve", !.code = 200,
                                 !.transactionId = transactionId,
                                 !.status = "completed"]
       /\ UNCHANGED <<storageImpl, balance, gameSessions, games>>

RejectTransactionNoRefund(isAdmin, transactionId) ==
  IF ~isAdmin \/ transactionId \notin DOMAIN transactions
  THEN /\ resp' = [NoResp EXCEPT !.kind = "reject",
                                 !.code = IF ~isAdmin THEN 403 ELSE 404,
                                 !.transactionId = transactionId]
       /\ UNCHANGED <<storageImpl, balance, transactions, gameSessions, games>>
  ELSE /\ balance' = balance
       /\ transactions' = updateTransactionStatus(transactions, transactionId, "rejected")
       /\ resp' = [NoResp EXCEPT !.kind = "reject", !.code = 200,
                                 !.transactionId = transactionId,
                                 !.status = "rejected"]
       /\ UNCHANGED <<storageImpl, gameSessions, games>>

\* POST /api/admin/transactions/:id/reject
RejectTransaction(isAdmin, transactionId) ==
  IF ~isAdmin \/ transactionId \notin DOMAIN transactions
  THEN /\ resp' = [NoResp EXCEPT !.kind = "reject",
                                 !.code = IF ~isAdmin THEN 403 ELSE 404,
                                 !.transactionId = transactionId]
       /\ UNCHANGED <<storageImpl, balance, transactions, gameSessions, games>>
  ELSE LET transaction == transactions[transactionId] IN
       /\ balance' = IF transaction.type = "withdrawal" /\ transaction.status = "pending"
                     THEN updateUserBalance(balance, transaction.userId,
                                            Abs(TransactionValue(transaction)))
                     ELSE balance
       /\ transactions' = updateTransactionStatus(transactions, transactionId, "rejected")
       /\ resp' = [NoResp EXCEPT !.kind = "reject", !.code = 200,
                                 !.transactionId = transactionId,
                                 !.status = "rejected"]
       /\ UNCHANGED <<storageImpl, gameSessions, games>>

SetHouseEdgeUnchecked(isAdmin, gameId, houseEdge) ==
  IF ~isAdmin
  THEN /\ resp' = [NoResp EXCEPT !.kind = "edge", !.code = 403, !.gameId = gameId]
       /\ UNCHANGED <<storageImpl, balance, transactions, gameSessions, games>>
  ELSE IF ~GameExists(gameId)
  THEN /\ resp' = [NoResp EXCEPT !.kind = "edge", !.code = 500, !.gameId = gameId,
                                 !.houseEdge = houseEdge]
       /\ UNCHANGED <<storageImpl, balance, transactions, gameSessions, games>>
  ELSE /\ games' = [games EXCEPT ![gameId].houseEdge = houseEdge]
       /\ resp' = [NoResp EXCEPT !.kind = "edge", !.code = 200, !.gameId = gameId,
                                 !.houseEdge = houseEdge]
       /\ UNCHANGED <<storageImpl, balance, transactions, gameSessions>>

\* POST /api/admin/games/:id/edge
SetHouseEdge(isAdmin, gameId, houseEdge) ==
  IF ~isAdmin
  THEN /\ resp' = [NoResp EXCEPT !.kind = "edge", !.code = 403, !.gameId = gameId]
       /\ UNCHANGED <<storageImpl, balance, transactions, gameSessions, games>>
  ELSE IF houseEdge < 0 \/ houseEdge > 100
  THEN /\ resp' = [NoResp EXCEPT !.kind = "edge", !.code = 400, !.gameId = gameId,
                                 !.houseEdge = houseEdge]
       /\ UNCHANGED <<storageImpl, balance, transactions, gameSessions, games>>
  ELSE IF ~GameExists(gameId)
  THEN /\ resp' = [NoResp EXCEPT !.kind = "edge", !.code = 500, !.gameId = gameId,
                                 !.houseEdge = houseEdge]
       /\ UNCHANGED <<storageImpl, balance, transactions, gameSessions, games>>
  ELSE /\ games' = [games EXCEPT ![gameId].houseEdge = houseEdge]
       /\ resp' = [NoResp EXCEPT !.kind = "edge", !.code = 200, !.gameId = gameId,
                                 !.houseEdge = houseEdge]
       /\ UNCHANGED <<storageImpl, balance, transactions, gameSessions>>

\* The isActive of a status body: a JSON boolean, or something else (taken
\* as one value, which the schema rejects)
StatusBodies ==
  {[isBoolean |-> TRUE, value |-> TRUE], [isBoolean |-> TRUE, value |-> FALSE],
   [isBoolean |-> FALSE, value |-> FALSE]}

\* POST /api/admin/games/:id/status
SetGameStatus(isAdmin, gameId, isActive) ==
  IF ~isAdmin
  THEN /\ resp' = [NoResp EXCEPT !.kind = "status", !.code = 403, !.gameId = gameId]
       /\ UNCHANGED <<storageImpl, balance, transactions, gameSessions, games>>
  \* statusSchema.parse: isActive: z.boolean()
  ELSE IF ~isActive.isBoolean
  THEN /\ resp' = [NoResp EXCEPT !.kind = "status", !.code = 400, !.gameId = gameId]
       /\ UNCHANGED <<storageImpl, balance, transactions, gameSessions, games>>
  ELSE IF ~GameExists(gameId)
  THEN /\ resp' = [NoResp EXCEPT !.kind = "status", !.code = 500, !.gameId = gameId]
       /\ UNCHANGED <<storageImpl, balance, transactions, gameSessions, games>>
  ELSE /\ games' = [games EXCEPT ![gameId].isActive = isActive.value]
       /\ resp' = [NoResp EXCEPT !.kind = "status", !.code = 200, !.gameId = gameId,
                                 !.isActive = isActive.value]
       /\ UNCHANGED <<storageImpl, balance, transactions, gameSessions>>

-----------------------------------------------------------------------------
(* Slots and roulette handlers *)

\* POST /api/games/slots/play
SlotsPlay(userId, gameId, bet, reels) ==
  LET code == ValidateBet(userId, gameId, bet, "slots") IN
  IF code # 0 THEN Reject("slots", code, userId, gameId, bet)
  ELSE
    LET raw == SlotsMultiplier(reels)
        edge == games[gameId].houseEdge
        \* winAmount = bet * (multiplier * houseEdgeMultiplier)
        winAmount == bet * raw * (100 - edge)
        netWin == winAmount - bet * 100
    IN /\ createGameSession([userId |-> userId, gameId |-> gameId,
                             bet |-> ToFixed2(bet * 100), status |-> "none",
                             win |-> ToFixed2(netWin)])
       /\ resp' = [NoResp EXCEPT !.kind = "slots", !.code = 200, !.userId = userId,
                     !.gameId = gameId, !.bet = bet, !.netWin = netWin,
                     !.rawMultiplier = raw, !.houseEdge = edge,
                     !.reqBalance = balance[userId], !.balance = balance'[userId]]
       /\ UNCHANGED <<storageImpl, games>>

\* a rejection of the roulette handler; the body's bet type and number are
\* kept with the response
RouletteReject(code, userId, gameId, bet, betType, betNumber) ==
  /\ resp' = [NoResp EXCEPT !.kind = "roulette", !.code = code, !.userId = userId,
                            !.gameId = gameId, !.bet = bet,
                            !.reqBalance = balance[userId],
                            !.betType = betType, !.betNumber = betNumber]
  /\ UNCHANGED <<storageImpl, balance, transactions, gameSessions, games>>

RoulettePlayUnchecked(userId, gameId, bet, betType, betNumber, result) ==
  LET code == ValidateBet(userId, gameId, bet, "roulette") IN
  \* playSchema.parse: betNumber: z.number().min(0).max(36).optional()
  IF \E n \in betNumber : n < 0 \/ n > 36
  THEN RouletteReject(400, userId, gameId, bet, betType, betNumber)
  ELSE IF code # 0
  THEN RouletteReject(code, userId, gameId, bet, betType, betNumber)
  ELSE
    LET out == RouletteOutcome(betType, betNumber, result)
        edge == games[gameId].houseEdge
        winAmount == IF out.win THEN bet * out.multiplier * (100 - edge) ELSE 0
        netWin == winAmount - bet * 100
    IN /\ createGameSession([userId |-> userId, gameId |-> gameId,
                             bet |-> ToFixed2(bet * 100), status |-> "none",
                             win |-> ToFixed2(netWin)])
       /\ resp' = [NoResp EXCEPT !.kind = "roulette", !.code = 200, !.userId = userId,
                     !.gameId = gameId, !.bet = bet, !.netWin = netWin,
                     !.rawMultiplier = out.multiplier, !.houseEdge = edge,
                     !.reqBalance = balance[userId], !.balance = balance'[userId],
                     !.betType = betType, !.betNumber = betNumber]
       /\ UNCHANGED <<storageImpl, games>>

\* POST /api/games/roulette/play
RoulettePlay(userId, gameId, bet, betType, betNumber, result) ==
  LET code == ValidateBet(userId, gameId, bet, "roulette") IN
  \* playSchema.parse: betNumber: z.number().min(0).max(36).optional()
  IF \E n \in betNumber : n < 0 \/ n > 36
  THEN RouletteReject(400, userId, gameId, bet, betType, betNumber)
  ELSE IF code # 0
  THEN RouletteReject(code, userId, gameId, bet, betType, betNumber)
  ELSE IF betType = "number" /\ betNumber = {}
  THEN RouletteReject(400, userId, gameId, bet, betType, betNumber)
  ELSE
    LET out == RouletteOutcome(betType, betNumber, result)
        edge == games[gameId].houseEdge
        winAmount == IF out.win THEN bet * out.multiplier * (100 - edge) ELSE 0
        netWin == winAmount - bet * 100
    IN /\ createGameSession([userId |-> userId, gameId |-> gameId,
                             bet |-> ToFixed2(bet * 100), status |-> "none",
                             win |-> ToFixed2(netWin)])
       /\ resp' = [NoResp EXCEPT !.kind = "roulette", !.code = 200, !.userId = userId,
                     !.gameId = gameId, !.bet = bet, !.netWin = netWin,
                     !.rawMultiplier = out.multiplier, !.houseEdge = edge,
                     !.reqBalance = balance[userId], !.balance = balance'[userId],
                     !.betType = betType, !.betNumber = betNumber]
       /\ UNCHANGED <<storageImpl, games>>

-----------------------------------------------------------------------------
(* Blackjack handlers *)

NaturalResultDealerFirst(playerHasBlackjack, dealerHasBlackjack, bet) ==
  IF dealerHasBlackjack THEN <<"dealer_blackjack", -(bet * 100)>>
  ELSE IF playerHasBlackjack THEN <<"player_blackjack", bet * 150>>
  ELSE <<"in_progress", 0>>

\* the natural-blackjack branch of the deal handler: <<gameStatus, netWin>>,
\* netWin = bet * 1.5, -bet or 0 in hundredths of a cent
NaturalResult(playerHasBlackjack, dealerHasBlackjack, bet) ==
  IF playerHasBlackjack /\ dealerHasBlackjack THEN <<"push", 0>>
  ELSE IF playerHasBlackjack THEN <<"player_blackjack", bet * 150>>
  ELSE IF dealerHasBlackjack THEN <<"dealer_blackjack", -(bet * 100)>>
  ELSE <<"in_progress", 0>>

\* POST /api/games/blackjack/deal; p1, p2, d1, d2 are the four cards popped
\* off the freshly shuffled deck, in that order
BlackjackDeal(userId, gameId, bet, p1, p2, d1, d2) ==
  LET code == ValidateBet(userId, gameId, bet, "blackjack") IN
  IF code # 0 THEN Reject("deal", code, userId, gameId, bet)
  ELSE
    LET playerHand == <<p1, p2>>
        dealerHand == <<d1, d2>>
        playerValue == calculateHandValueDeal(playerHand)
        dealerValue == calculateHandValueDeal(dealerHand)
        playerHasBlackjack == playerValue = 21 /\ Len(playerHand) = 2
        dealerHasBlackjack == dealerValue = 21 /\ Len(dealerHand) = 2
        natural == NaturalResult(playerHasBlackjack, dealerHasBlackjack, bet)
        gameStatus == natural[1]
        netWin == natural[2]
    IN /\ IF playerHasBlackjack \/ dealerHasBlackjack
          THEN createGameSession([userId |-> userId, gameId |-> gameId,
                                  bet |-> ToFixed2(bet * 100), status |-> gameStatus,
                                  win |-> ToFixed2(netWin)])
          ELSE UNCHANGED <<gameSessions, balance, transactions>>
       /\ resp' = [NoResp EXCEPT !.kind = "deal", !.code = 200, !.userId = userId,
                     !.gameId = gameId, !.bet = bet, !.status = gameStatus,
                     !.netWin = netWin, !.houseEdge = games[gameId].houseEdge,
                     !.reqBalance = balance[userId], !.balance = balance'[userId],
                     !.playerValue = playerValue, !.dealerValue = dealerValue,
                     !.playerCards = Len(playerHand), !.dealerCards = Len(dealerHand)]
       /\ UNCHANGED <<storageImpl, games>>

\* Number of cards of value v among the cards already popped
Popped(drawn, v) == Cardinality({i \in DOMAIN drawn : drawn[i] = v})

\* The values deck.pop() can return: the reconstructed deck is a slice of a
\* shuffled 52-card deck, so a value comes up at most four times; cards is
\* the set of values the explored shuffles bring to the top of the deck
CanPop(cards, drawn) == {v \in cards : Popped(drawn, v) < 4}

RECURSIVE DealerLoopDrawsFromEmpty(_, _, _, _)
DealerLoopDrawsFromEmpty(cards, dealerHand, n, drawn) ==
  IF calculateHandValueAction(dealerHand) >= 17
  THEN {[ok |-> TRUE, dealerHand |-> dealerHand]}
  ELSE IF n = 0 THEN {[ok |-> TRUE, dealerHand |-> dealerHand]}
  ELSE UNION {DealerLoopDrawsFromEmpty(cards, Append(dealerHand, c), n - 1,
                                       Append(drawn, c)) :
                c \in CanPop(cards, drawn)}

\* while (dealerValue < 17) { dealerHand.push(deck.pop()); ... } with n cards
\* left in the deck: the hands the loop can end with; ok is FALSE when pop()
\* returned undefined and calculateHandValue threw
RECURSIVE DealerLoop(_, _, _, _)
DealerLoop(cards, dealerHand, n, drawn) ==
  IF calculateHandValueAction(dealerHand) >= 17
  THEN {[ok |-> TRUE, dealerHand |-> dealerHand]}
  ELSE IF n = 0 THEN {[ok |-> FALSE, dealerHand |-> dealerHand]}
  ELSE UNION {DealerLoop(cards, Append(dealerHand, c), n - 1, Append(drawn, c)) :
                c \in CanPop(cards, drawn)}

\* gameStatus after the hit / double / stand branch, before the dealer turn
PlayerStepStatus(action, playerValue) ==
  IF action = "hit"
  THEN IF playerValue > 21 THEN "player_bust" ELSE "in_progress"
  ELSE IF action = "double"
  THEN IF playerValue > 21 THEN "player_bust" ELSE "dealer_turn"
  ELSE "dealer_turn"

\* Everything the action handler draws from the deck for one request: the
\* dealer's hole card (two pops: one for the suit, one for the value), the
\* player's card on hit or double, and the dealer's draws on the dealer turn.
\* threw is TRUE when a pop from the empty deck made the handler throw.
ActionRuns(cards, action, playerHand, dealerUp, deckLen) ==
  IF deckLen < 2
  THEN {[threw |-> TRUE, playerHand |-> playerHand, dealerHand |-> <<dealerUp>>,
         dealerTurn |-> FALSE]}
  ELSE UNION {
    LET dealerHand == <<dealerUp, hole>> IN
    IF action = "stand"
    THEN {[threw |-> ~d.ok, playerHand |-> playerHand, dealerHand |-> d.dealerHand,
           dealerTurn |-> TRUE] :
            d \in DealerLoop(cards, dealerHand, deckLen - 2, <<hole>>)}
    ELSE IF deckLen - 2 = 0
    THEN {[threw |-> TRUE, playerHand |-> playerHand, dealerHand |-> dealerHand,
           dealerTurn |-> FALSE]}
    ELSE UNION {
      LET hand == Append(playerHand, c) IN
      IF PlayerStepStatus(action, calculateHandValueAction(hand)) = "dealer_turn"
      THEN {[threw |-> ~d.ok, playerHand |-> hand, dealerHand |-> d.dealerHand,
             dealerTurn |-> TRUE] :
              d \in DealerLoop(cards, dealerHand, deckLen - 3, <<hole, c>>)}
      ELSE {[threw |-> FALSE, playerHand |-> hand, dealerHand |-> dealerHand,
             dealerTurn |-> FALSE]}
      : c \in CanPop(cards, <<hole>>)}
    : hole \in cards}

DealerTurnResultNoPush(dealerValue, playerValue, bet) ==
  IF dealerValue > 21 THEN <<"dealer_bust", bet * 100>>
  ELSE IF dealerValue > playerValue THEN <<"dealer_wins", -(bet * 100)>>
  ELSE IF dealerValue < playerValue THEN <<"player_wins", bet * 100>>
  ELSE <<"dealer_turn", 0>>

\* the comparison of totals after the dealer loop: <<gameStatus, netWin>>,
\* netWin in hundredths of a cent
DealerTurnResult(dealerValue, playerValue, bet) ==
  IF dealerValue > 21 THEN <<"dealer_bust", bet * 100>>
  ELSE IF dealerValue > playerValue THEN <<"dealer_wins", -(bet * 100)>>
  ELSE IF dealerValue < playerValue THEN <<"player_wins", bet * 100>>
  ELSE <<"push", 0>>

\* POST /api/games/blackjack/action; gameState = {playerHand, dealerHand:
\* [dealerUp, ...], deck: deckLen masked cards, bet} comes from the client
BlackjackAction(userId, gameId, action, playerHand, dealerUp, deckLen, gameStateBet, run) ==
  IF deckLen < 2
  THEN Reject("action", 500, userId, gameId, gameStateBet)
  ELSE IF action = "double" /\ balance[userId] < gameStateBet
  THEN Reject("action", 400, userId, gameId, gameStateBet)
  ELSE IF run.threw
  THEN Reject("action", 500, userId, gameId, gameStateBet)
  ELSE
    LET bet == IF action = "double" THEN gameStateBet * 2 ELSE gameStateBet
        playerValue == calculateHandValueAction(run.playerHand)
        dealerValue == calculateHandValueAction(run.dealerHand)
        turn == DealerTurnResult(dealerValue, playerValue, bet)
        stepStatus == PlayerStepStatus(action, playerValue)
        gameStatus == IF stepStatus = "dealer_turn" THEN turn[1] ELSE stepStatus
        netWin0 == IF stepStatus = "dealer_turn" THEN turn[2]
                   ELSE IF stepStatus = "player_bust" THEN -(bet * 100)
                   ELSE 0
        \* if (netWin > 0 && game) netWin = netWin * houseEdgeMultiplier
        netWin == IF netWin0 > 0 /\ GameExists(gameId)
                  THEN (netWin0 * (100 - games[gameId].houseEdge)) \div 100
                  ELSE netWin0
    IN /\ IF gameStatus # "in_progress"
          THEN createGameSession([userId |-> userId, gameId |-> gameId,
                                  bet |-> ToFixed2(bet * 100), status |-> gameStatus,
                                  win |-> ToFixed2(netWin)])
          ELSE UNCHANGED <<gameSessions, balance, transactions>>
       /\ resp' = [NoResp EXCEPT !.kind = "action", !.code = 200, !.userId = userId,
                     !.gameId = gameId, !.action = action, !.bet = bet,
                     !.status = gameStatus, !.netWin = netWin,
                     !.houseEdge = IF GameExists(gameId)
                                   THEN games[gameId].houseEdge ELSE 0,
                     !.reqBalance = balance[userId], !.balance = balance'[userId],
                     !.playerValue = playerValue, !.dealerValue = dealerValue,
                     !.playerCards = Len(run.playerHand),
                     !.dealerCards = Len(run.dealerHand),
                     !.dealerTurn = run.dealerTurn,
                     !.reqBet = gameStateBet,
                     !.reqPlayerCards = Len(playerHand),
                     !.reqDeck = deckLen]
       /\ UNCHANGED <<storageImpl, games>>

-----------------------------------------------------------------------------
(* Handlers in flight.  A handler runs without interruption up to an await *)
(* on the store; with MongoDBStorage every store call is a round trip to   *)
(* the database, during which the handlers of other requests run.          *)
(* inflight[r] is the position of the handler of request r and the locals  *)
(* it holds across its awaits: the transaction it read, the balance that   *)
(* updateUserBalance read, and whether it has written a refund.            *)

Requests == {1, 2}

Idle ==
  [pc |-> "idle", transactionId |-> 0, type |-> "none", status |-> "none",
   userId |-> 0, amount |-> 0, currentBalance |-> 0, credited |-> FALSE,
   reqBalance |-> 0, gameId |-> 0, win |-> 0, frac |-> 0]

NoneInFlight == [r \in Requests |-> Idle]

\* reject: the admin check, then await storage.getTransaction(transactionId)
RejectGetTransaction(r, isAdmin, transactionId) ==
  /\ inflight[r].pc = "idle"
  /\ IF ~isAdmin \/ transactionId \notin DOMAIN transactions
     THEN /\ inflight' = [inflight EXCEPT ![r].pc = "done",
                                          ![r].transactionId = transactionId]
          /\ resp' = [NoResp EXCEPT !.kind = "reject",
                                    !.code = IF ~isAdmin THEN 403 ELSE 404,
                                    !.transactionId = transactionId]
     ELSE LET transaction == transactions[transactionId] IN
          /\ inflight' = [inflight EXCEPT ![r] =
               [Idle EXCEPT !.pc = IF transaction.type = "withdrawal"
                                      /\ transaction.status = "pending"
                                   THEN "findUser" ELSE "updateStatus",
                            !.transactionId = transactionId,
                            !.type = transaction.type,
                            !.status = transaction.status,
                            !.userId = transaction.userId,
                            !.amount = transaction.amount,
                            !.frac = transaction.frac]]
          /\ resp' = resp
  /\ UNCHANGED <<storageImpl, balance, transactions, gameSessions, games>>

\* reject: MongoDBStorage.updateUserBalance, await UserModel.findById(userId)
RejectFindUser(r) ==
  /\ inflight[r].pc = "findUser"
  /\ inflight' = [inflight EXCEPT ![r].pc = "updateBalance",
                                  ![r].currentBalance = balance[inflight[r].userId]]
  /\ UNCHANGED <<storageImpl, balance, transactions, gameSessions, games, resp>>

\* reject: MongoDBStorage.updateUserBalance, await UserModel.findByIdAndUpdate
\* (userId, { balance: (currentBalance + amount).toFixed(2) })
RejectUpdateBalance(r) ==
  /\ inflight[r].pc = "updateBalance"
  /\ balance' = [balance EXCEPT ![inflight[r].userId] =
                   ToFixed2(ParseFloat(inflight[r].currentBalance)
                            + Abs(ParseFloat(inflight[r].amount)
                                  + inflight[r].frac))]
  /\ inflight' = [inflight EXCEPT ![r].pc = "updateStatus", ![r].credited = TRUE]
  /\ UNCHANGED <<storageImpl, transactions, gameSessions, games, resp>>

\* reject: await storage.updateTransactionStatus(transactionId, "rejected"),
\* then res.json(updatedTransaction)
RejectUpdateStatus(r) ==
  /\ inflight[r].pc = "updateStatus"
  /\ transactions' = updateTransactionStatus(transactions, inflight[r].transactionId,
                                             "rejected")
  /\ inflight' = [inflight EXCEPT ![r].pc = "done"]
  /\ resp' = [NoResp EXCEPT !.kind = "reject", !.code = 200,
                            !.transactionId = inflight[r].transactionId,
                            !.status = "rejected"]
  /\ UNCHANGED <<storageImpl, balance, gameSessions, games>>

\* withdraw under MongoDBStorage: deserializeUser has read req.user; the
\* handler compares the amount with req.user.balance and, when it is
\* covered, awaits storage.createTransaction.  status is the outcome of the
\* check, amount the signed amount of the transaction.
WithdrawCheck(r, userId, amount) ==
  /\ inflight[r].pc = "idle"
  /\ IF balance[userId] < amount
     THEN /\ inflight' = [inflight EXCEPT ![r] =
               [Idle EXCEPT !.pc = "done", !.type = "withdrawal",
                            !.status = "rejected", !.userId = userId,
                            !.amount = -amount, !.reqBalance = balance[userId]]]
          /\ resp' = [NoResp EXCEPT !.kind = "withdraw", !.code = 400,
                                    !.userId = userId, !.amount = amount,
                                    !.reqBalance = balance[userId]]
     ELSE /\ inflight' = [inflight EXCEPT ![r] =
               [Idle EXCEPT !.pc = "withdraw:createTransaction",
                            !.type = "withdrawal", !.status = "accepted",
                            !.userId = userId, !.amount = -amount,
                            !.reqBalance = balance[userId]]]
          /\ resp' = resp
  /\ UNCHANGED <<storageImpl, balance, transactions, gameSessions, games>>

\* withdraw: the pending withdrawal is stored; the handler goes on to
\* storage.updateUserBalance(req.user.id, -amount)
WithdrawCreateTransaction(r) ==
  /\ inflight[r].pc = "withdraw:createTransaction"
  /\ transactions' = createTransaction(transactions,
       [userId |-> inflight[r].userId, amount |-> inflight[r].amount,
        frac |-> 0, type |-> "withdrawal", status |-> "pending", gameId |-> 0])
  /\ inflight' = [inflight EXCEPT ![r].pc = "withdraw:findById"]
  /\ UNCHANGED <<storageImpl, balance, gameSessions, games, resp>>

\* withdraw: MongoDBStorage.updateUserBalance, await UserModel.findById(userId)
WithdrawFindUser(r) ==
  /\ inflight[r].pc = "withdraw:findById"
  /\ inflight' = [inflight EXCEPT ![r].pc = "withdraw:findByIdAndUpdate",
                                  ![r].currentBalance = balance[inflight[r].userId]]
  /\ UNCHANGED <<storageImpl, balance, transactions, gameSessions, games, resp>>

WithdrawUpdateBalanceFromSnapshot(r) ==
  /\ inflight[r].pc = "withdraw:findByIdAndUpdate"
  /\ balance' = [balance EXCEPT ![inflight[r].userId] =
                   ToFixed2(ParseFloat(inflight[r].reqBalance)
                            + ParseFloat(inflight[r].amount))]
  /\ inflight' = [inflight EXCEPT ![r].pc = "done"]
  /\ resp' = [NoResp EXCEPT !.kind = "withdraw", !.code = 201,
                            !.userId = inflight[r].userId,
                            !.amount = -inflight[r].amount,
                            !.reqBalance = inflight[r].reqBalance,
                            !.balance = balance'[inflight[r].userId]]
  /\ UNCHANGED <<storageImpl, transactions, gameSessions, games>>

\* withdraw: MongoDBStorage.updateUserBalance, await UserModel.findByIdAndUpdate
\* (userId, { balance: (currentBalance + amount).toFixed(2) }), then
\* res.status(201).json({ transaction, balance })
WithdrawUpdateBalance(r) ==
  /\ inflight[r].pc = "withdraw:findByIdAndUpdate"
  /\ balance' = [balance EXCEPT ![inflight[r].userId] =
                   ToFixed2(ParseFloat(inflight[r].currentBalance)
                            + ParseFloat(inflight[r].amount))]
  /\ inflight' = [inflight EXCEPT ![r].pc = "done"]
  /\ resp' = [NoResp EXCEPT !.kind = "withdraw", !.code = 201,
                            !.userId = inflight[r].userId,
                            !.amount = -inflight[r].amount,
                            !.reqBalance = inflight[r].reqBalance,
                            !.balance = balance'[inflight[r].userId]]
  /\ UNCHANGED <<storageImpl, transactions, gameSessions, games>>

\* slots under MongoDBStorage: deserializeUser has read req.user; the handler
\* parses the body and awaits storage.getGame(gameId).  amount is the bet.
SlotsParse(r, userId, gameId, bet) ==
  /\ inflight[r].pc = "idle"
  /\ IF bet <= 0
     THEN /\ inflight' = [inflight EXCEPT ![r] =
               [Idle EXCEPT !.pc = "done", !.type = "slots", !.status = "rejected",
                            !.userId = userId, !.gameId = gameId, !.amount = bet,
                            !.reqBalance = balance[userId]]]
          /\ resp' = [NoResp EXCEPT !.kind = "slots", !.code = 400, !.userId = userId,
                                    !.gameId = gameId, !.bet = bet,
                                    !.reqBalance = balance[userId]]
     ELSE /\ inflight' = [inflight EXCEPT ![r] =
               [Idle EXCEPT !.pc = "slots:getGame", !.type = "slots",
                            !.userId = userId, !.gameId = gameId, !.amount = bet,
                            !.reqBalance = balance[userId]]]
          /\ resp' = resp
  /\ UNCHANGED <<storageImpl, balance, transactions, gameSessions, games>>

\* slots: the game has been read; the handler checks the game, the limits
\* and req.user.balance, spins the reels and awaits storage.createGameSession.
\* win is the session's win.
SlotsGetGame(r, reels) ==
  /\ inflight[r].pc = "slots:getGame"
  /\ LET gameId == inflight[r].gameId
         bet == inflight[r].amount
         code == IF ~GameExists(gameId) THEN 404
                 ELSE IF ~games[gameId].isActive THEN 404
                 ELSE IF games[gameId].type # "slots" THEN 400
                 ELSE IF bet < games[gameId].minBet \/ bet > games[gameId].maxBet
                 THEN 400
                 ELSE IF inflight[r].reqBalance < bet THEN 400
                 ELSE 0
     IN IF code # 0
        THEN /\ inflight' = [inflight EXCEPT ![r].pc = "done",
                                             ![r].status = "rejected"]
             /\ resp' = [NoResp EXCEPT !.kind = "slots", !.code = code,
                                       !.userId = inflight[r].userId,
                                       !.gameId = gameId, !.bet = bet,
                                       !.reqBalance = inflight[r].reqBalance]
        ELSE /\ inflight' = [inflight EXCEPT
                  ![r].pc = "slots:createGameSession",
                  ![r].status = "accepted",
                  ![r].win = ToFixed2(bet * SlotsMultiplier(reels)
                                        * (100 - games[gameId].houseEdge)
                                      - bet * 100)]
             /\ resp' = resp
  /\ UNCHANGED <<storageImpl, balance, transactions, gameSessions, games>>

\* slots: MongoDBStorage.createGameSession stores the session; the handler
\* goes on to await storage.getUser(req.user.id) for the response.
\* currentBalance is the balance at the time the session is stored.
SlotsCreateGameSession(r) ==
  /\ inflight[r].pc = "slots:createGameSession"
  /\ MongoCreateGameSession([userId |-> inflight[r].userId,
                             gameId |-> inflight[r].gameId,
                             bet |-> ToFixed2(inflight[r].amount * 100),
                             status |-> "none", win |-> inflight[r].win])
  /\ inflight' = [inflight EXCEPT ![r].pc = "slots:getUser",
                                  ![r].currentBalance = balance[inflight[r].userId]]
  /\ UNCHANGED <<storageImpl, games, resp>>

\* slots: the user has been read again, res.json({ ..., balance })
SlotsGetUser(r) ==
  /\ inflight[r].pc = "slots:getUser"
  /\ inflight' = [inflight EXCEPT ![r].pc = "done"]
  /\ resp' = [NoResp EXCEPT !.kind = "slots", !.code = 200,
                            !.userId = inflight[r].userId,
                            !.gameId = inflight[r].gameId,
                            !.bet = inflight[r].amount,
                            !.netWin = ParseFloat(inflight[r].win),
                            !.reqBalance = inflight[r].reqBalance,
                            !.balance = balance[inflight[r].userId]]
  /\ UNCHANGED <<storageImpl, balance, transactions, gameSessions, games>>

-----------------------------------------------------------------------------
(* The state after construction *)

LedgerStart(impl) ==
  /\ storageImpl = impl
  /\ balance = [u \in Users |-> 0]
  /\ transactions = <<>>
  /\ gameSessions = <<>>
  /\ games = IF impl = "mem" THEN MemDefaultGames ELSE MongoDefaultGames
  /\ resp = NoResp
  /\ inflight = NoneInFlight

-----------------------------------------------------------------------------
(* The server handling requests one at a time, from construction *)

\* The cards drawn when the request is rejected before any draw do not
\* matter: one stands for all
Drawn(accepted, S) == IF accepted THEN S ELSE {CHOOSE x \in S : TRUE}

\* The user whose game requests are explored; the others only deposit
Players == {1}

DepositAmounts == {10000}

\* The reel symbols, wheel numbers and card values that the explored draws
\* produce
TopSymbols == {"cherry", "seven"}

TopNumbers == {0, 17}

TopCards == {"A", "6", "K"}

Init ==
  /\ \E impl \in {"mem", "mongo"} : LedgerStart(impl)
  /\ arg = <<>>
  /\ ret = <<>>

NumDeposits == Cardinality({i \in DOMAIN transactions : transactions[i].type = "deposit"})

DoDeposit ==
  /\ NumDeposits < MaxDeposits
  /\ \E u \in Users, a \in DepositAmounts : Deposit(u, AmountString(a))
  /\ UNCHANGED <<arg, ret, inflight>>

DoSetHouseEdge ==
  /\ \E isAdmin \in AdminFlags, g \in {1}, e \in {20} : SetHouseEdge(isAdmin, g, e)
  /\ UNCHANGED <<arg, ret, inflight>>

DoSlotsPlay ==
  /\ Len(gameSessions) < MaxSessions
  /\ \E u \in Players, g \in {1, 4}, bet \in {1000} :
       \E reels \in Drawn(ValidateBet(u, g, bet, "slots") = 0,
                          TopSymbols \X TopSymbols \X TopSymbols) :
         SlotsPlay(u, g, bet, reels)
  /\ UNCHANGED <<arg, ret, inflight>>

DoRoulettePlay ==
  /\ Len(gameSessions) < MaxSessions
  /\ \E u \in Players, g \in {2}, bet \in {1000}, betType \in {"black", "number"},
        betNumber \in {{17}} :
       \E result \in Drawn(ValidateBet(u, g, bet, "roulette") = 0, TopNumbers) :
         RoulettePlay(u, g, bet, betType, betNumber, result)
  /\ UNCHANGED <<arg, ret, inflight>>

DoBlackjackDeal ==
  /\ Len(gameSessions) < MaxSessions
  /\ \E u \in Players, g \in {3}, bet \in {1000} :
       \E c \in Drawn(ValidateBet(u, g, bet, "blackjack") = 0,
                      TopCards \X TopCards \X TopCards \X TopCards) :
         BlackjackDeal(u, g, bet, c[1], c[2], c[3], c[4])
  /\ UNCHANGED <<arg, ret, inflight>>

DoBlackjackAction ==
  /\ Len(gameSessions) < MaxSessions
  /\ \E u \in Players, g \in {3}, action \in {"hit", "stand", "double"},
        playerHand \in {<<"K", "6">>}, dealerUp \in {"6"},
        deckLen \in {48}, bet \in {-1000, 1000} :
       \E run \in ActionRuns(TopCards, action, playerHand, dealerUp, deckLen) :
         BlackjackAction(u, g, action, playerHand, dealerUp, deckLen, bet, run)
  /\ UNCHANGED <<arg, ret, inflight>>

Next ==
  \/ DoDeposit
  \/ DoSetHouseEdge
  \/ DoSlotsPlay
  \/ DoRoulettePlay
  \/ DoBlackjackDeal
  \/ DoBlackjackAction

Spec == Init /\ [][Next]_vars

-----------------------------------------------------------------------------
(* One request against a ledger the wallet and admin handlers have set up: *)
(* user 1 has deposited StartBalances and, where an admin exists, every    *)
(* game's house edge has been set to one of StartEdges.  The request's     *)
(* draws range over whole decks, wheels and reels.                         *)

StartBalances == {0, 10000}

StartEdges == {0, 20, 50, 100}

\* <<house edge of every game, id of the deactivated game or 0>>, as the
\* admin's edge and status requests can leave them
StartConfigs ==
  {<<e, 0>> : e \in StartEdges} \cup {<<50, g>> : g \in 1..3}

RequestCards == {"A", "2", "5", "6", "9", "K"}

ClientHands == {<<"K", "6">>, <<"A", "5">>, <<"K", "K">>, <<"9", "6", "5">>}

InitRequest ==
  /\ storageImpl \in {"mem", "mongo"}
  /\ \E b \in StartBalances,
        c \in (IF storageImpl = "mem" THEN {<<MemDefaultGames[1].houseEdge, 0>>}
               ELSE StartConfigs) :
       /\ balance = [u \in Users |-> IF u = 1 THEN b ELSE 0]
       /\ transactions = IF b = 0 THEN <<>>
                         ELSE <<[userId |-> 1, amount |-> b, frac |-> 0,
                                 type |-> "deposit",
                                 status |-> "completed", gameId |-> 0]>>
       /\ games = [i \in 1..3 |->
                     [(IF storageImpl = "mem" THEN MemDefaultGames
                       ELSE MongoDefaultGames)[i]
                        EXCEPT !.houseEdge = c[1], !.isActive = (i # c[2])]]
  /\ gameSessions = <<>>
  /\ resp = NoResp
  /\ inflight = NoneInFlight
  /\ arg = <<>>
  /\ ret = <<>>

ReqSlotsPlay ==
  /\ resp.kind = "none"
  /\ \E g \in {1, 2, 4}, bet \in {0, 1000, 20000} :
       \E reels \in Drawn(ValidateBet(1, g, bet, "slots") = 0,
                          Symbols \X Symbols \X Symbols) :
         SlotsPlay(1, g, bet, reels)
  /\ UNCHANGED <<arg, ret, inflight>>

ReqRoulettePlay ==
  /\ resp.kind = "none"
  /\ \E g \in {2, 4}, bet \in {1000, 2000}, betType \in BetTypes,
        betNumber \in {{}, {0}, {17}, {37}} :
       \E result \in Drawn(ValidateBet(1, g, bet, "roulette") = 0, WheelNumbers) :
         RoulettePlay(1, g, bet, betType, betNumber, result)
  /\ UNCHANGED <<arg, ret, inflight>>

ReqBlackjackDeal ==
  /\ resp.kind = "none"
  /\ \E g \in {1, 3}, bet \in {400, 1000, 2000} :
       \E c \in Drawn(ValidateBet(1, g, bet, "blackjack") = 0,
                      Values \X Values \X Values \X Values) :
         BlackjackDeal(1, g, bet, c[1], c[2], c[3], c[4])
  /\ UNCHANGED <<arg, ret, inflight>>

ReqBlackjackAction ==
  /\ resp.kind = "none"
  /\ \E g \in {3, 4}, action \in {"hit", "stand", "double"},
        playerHand \in ClientHands, dealerUp \in {"6", "K"},
        deckLen \in {0, 1, 2, 3, 48}, bet \in {-1000, 1000, 10000, 20000} :
       \E run \in ActionRuns(RequestCards, action, playerHand, dealerUp, deckLen) :
         BlackjackAction(1, g, action, playerHand, dealerUp, deckLen, bet, run)
  /\ UNCHANGED <<arg, ret, inflight>>

NextRequest ==
  \/ ReqSlotsPlay
  \/ ReqRoulettePlay
  \/ ReqBlackjackDeal
  \/ ReqBlackjackAction

SpecRequest == InitRequest /\ [][NextRequest]_vars

-----------------------------------------------------------------------------
(* The admin's game configuration requests, one at a time, from the        *)
(* default games.                                                          *)

GameIds == 1..4

EdgeBodies == {-1, 0, 20, 100, 101}

AdminSetHouseEdge ==
  /\ \E isAdmin \in AdminFlags, g \in GameIds, e \in EdgeBodies :
       SetHouseEdge(isAdmin, g, e)
  /\ UNCHANGED <<arg, ret, inflight>>

AdminSetGameStatus ==
  /\ \E isAdmin \in AdminFlags, g \in GameIds, isActive \in StatusBodies :
       SetGameStatus(isAdmin, g, isActive)
  /\ UNCHANGED <<arg, ret, inflight>>

NextAdmin ==
  \/ AdminSetHouseEdge
  \/ AdminSetGameStatus

SpecAdmin == Init /\ [][NextAdmin]_vars

-----------------------------------------------------------------------------
(* The wallet: deposits, withdrawals and the admin's approve / reject,     *)
(* handled one request at a time, from construction.                       *)

WalletAmounts ==
  {AmountString(-5000), AmountString(0), AmountString(5000), AmountNumber(5000)}

WalletDeposit ==
  /\ Len(transactions) < MaxTransactions
  /\ \E u \in Players, a \in WalletAmounts : Deposit(u, a)
  /\ UNCHANGED <<arg, ret, inflight>>

WalletWithdraw ==
  /\ Len(transactions) < MaxTransactions
  /\ \E u \in Players, a \in WalletAmounts, hasAddress \in BOOLEAN :
       Withdraw(u, a, hasAddress)
  /\ UNCHANGED <<arg, ret, inflight>>

WalletApprove ==
  /\ \E isAdmin \in AdminFlags, id \in 1..MaxTransactions :
       ApproveTransaction(isAdmin, id)
  /\ UNCHANGED <<arg, ret, inflight>>

WalletReject ==
  /\ \E isAdmin \in AdminFlags, id \in 1..MaxTransactions :
       RejectTransaction(isAdmin, id)
  /\ UNCHANGED <<arg, ret, inflight>>

NextWallet ==
  \/ WalletDeposit
  \/ WalletWithdraw
  \/ WalletApprove
  \/ WalletReject

SpecWallet == Init /\ [][NextWallet]_vars

-----------------------------------------------------------------------------
(* Concurrent admin rejects: a user deposits and withdraws, and the reject *)
(* handlers of the requests in Requests interleave at their awaits.        *)

NumWithdrawals ==
  Cardinality({i \in DOMAIN transactions : transactions[i].type = "withdrawal"})

RaceDeposit ==
  /\ NumDeposits < MaxDeposits
  /\ \E u \in Players, a \in DepositAmounts : Deposit(u, AmountString(a))
  /\ UNCHANGED <<arg, ret, inflight>>

RaceWithdraw ==
  /\ NumWithdrawals < MaxWithdrawals
  /\ \E u \in Players, a \in {5000, 20000} : Withdraw(u, AmountString(a), TRUE)
  /\ UNCHANGED <<arg, ret, inflight>>

RaceRejectGetTransaction ==
  /\ \E r \in Requests, isAdmin \in AdminFlags,
        id \in 1..(MaxDeposits + MaxWithdrawals) :
       RejectGetTransaction(r, isAdmin, id)
  /\ UNCHANGED <<arg, ret>>

RaceRejectFindUser ==
  /\ \E r \in Requests : RejectFindUser(r)
  /\ UNCHANGED <<arg, ret>>

RaceRejectUpdateBalance ==
  /\ \E r \in Requests : RejectUpdateBalance(r)
  /\ UNCHANGED <<arg, ret>>

RaceRejectUpdateStatus ==
  /\ \E r \in Requests : RejectUpdateStatus(r)
  /\ UNCHANGED <<arg, ret>>

NextRejectRace ==
  \/ RaceDeposit
  \/ RaceWithdraw
  \/ RaceRejectGetTransaction
  \/ RaceRejectFindUser
  \/ RaceRejectUpdateBalance
  \/ RaceRejectUpdateStatus

SpecRejectRace == Init /\ [][NextRejectRace]_vars

-----------------------------------------------------------------------------
(* The account as a whole: deposits, withdrawals, the admin's approve and  *)
(* reject and slots plays, one request at a time, from construction.       *)

AccountAmounts == {AmountString(5000), AmountFine(0, 40)}

AccountDeposit ==
  /\ Len(transactions) < MaxTransactions
  /\ \E u \in Players, a \in AccountAmounts : Deposit(u, a)
  /\ UNCHANGED <<arg, ret, inflight>>

AccountWithdraw ==
  /\ Len(transactions) < MaxTransactions
  /\ \E u \in Players, a \in AccountAmounts : Withdraw(u, a, TRUE)
  /\ UNCHANGED <<arg, ret, inflight>>

AccountApprove ==
  /\ \E isAdmin \in AdminFlags, id \in 1..MaxTransactions :
       ApproveTransaction(isAdmin, id)
  /\ UNCHANGED <<arg, ret, inflight>>

AccountReject ==
  /\ \E isAdmin \in AdminFlags, id \in 1..MaxTransactions :
       RejectTransaction(isAdmin, id)
  /\ UNCHANGED <<arg, ret, inflight>>

AccountSlotsPlay ==
  /\ Len(transactions) < MaxTransactions
  /\ Len(gameSessions) < MaxSessions
  /\ \E u \in Players, bet \in {1000} :
       \E reels \in Drawn(ValidateBet(u, 1, bet, "slots") = 0,
                          TopSymbols \X TopSymbols \X TopSymbols) :
         SlotsPlay(u, 1, bet, reels)
  /\ UNCHANGED <<arg, ret, inflight>>

NextAccount ==
  \/ AccountDeposit
  \/ AccountWithdraw
  \/ AccountApprove
  \/ AccountReject
  \/ AccountSlotsPlay

SpecAccount == Init /\ [][NextAccount]_vars

-----------------------------------------------------------------------------
(* Two requests of one user in flight at once: each a withdrawal or a      *)
(* slots play, started after a deposit.  Under MemStorage every await of a *)
(* handler resolves without leaving the event loop turn, so a handler runs *)
(* to its response before the other request is read; under MongoDBStorage  *)
(* the handlers interleave at their awaits.                                *)

RaceStartBalance == 10000

RaceAmounts == {4000, 6000}

RaceBets == {0, 1000, 6000}

InitBalanceRace ==
  /\ storageImpl \in {"mem", "mongo"}
  /\ balance = [u \in Users |-> IF u = 1 THEN RaceStartBalance ELSE 0]
  /\ transactions = <<[userId |-> 1, amount |-> RaceStartBalance, frac |-> 0,
                       type |-> "deposit", status |-> "completed", gameId |-> 0]>>
  /\ games = IF storageImpl = "mem" THEN MemDefaultGames ELSE MongoDefaultGames
  /\ gameSessions = <<>>
  /\ resp = NoResp
  /\ inflight = NoneInFlight
  /\ arg = <<>>
  /\ ret = <<>>

MemWithdraw ==
  /\ storageImpl = "mem"
  /\ \E r \in Requests, a \in RaceAmounts :
       /\ inflight[r].pc = "idle"
       /\ Withdraw(1, AmountString(a), TRUE)
       /\ inflight' = [inflight EXCEPT ![r] =
            [Idle EXCEPT !.pc = "done", !.type = "withdrawal",
                         !.status = IF balance[1] < a THEN "rejected" ELSE "accepted",
                         !.userId = 1, !.amount = -a, !.reqBalance = balance[1],
                         !.currentBalance = balance[1]]]
  /\ UNCHANGED <<arg, ret>>

MemSlotsPlay ==
  /\ storageImpl = "mem"
  /\ \E r \in Requests, bet \in RaceBets :
       \E reels \in Drawn(ValidateBet(1, 1, bet, "slots") = 0,
                          TopSymbols \X TopSymbols \X TopSymbols) :
         /\ inflight[r].pc = "idle"
         /\ SlotsPlay(1, 1, bet, reels)
         /\ inflight' = [inflight EXCEPT ![r] =
              [Idle EXCEPT !.pc = "done", !.type = "slots",
                           !.status = IF ValidateBet(1, 1, bet, "slots") = 0
                                      THEN "accepted" ELSE "rejected",
                           !.userId = 1, !.gameId = 1, !.amount = bet,
                           !.reqBalance = balance[1], !.currentBalance = balance[1],
                           !.win = IF ValidateBet(1, 1, bet, "slots") = 0
                                   THEN ToFixed2(resp'.netWin) ELSE 0]]
  /\ UNCHANGED <<arg, ret>>

MongoWithdrawCheck ==
  /\ storageImpl = "mongo"
  /\ \E r \in Requests, a \in RaceAmounts : WithdrawCheck(r, 1, a)
  /\ UNCHANGED <<arg, ret>>

MongoWithdrawCreateTransaction ==
  /\ \E r \in Requests : WithdrawCreateTransaction(r)
  /\ UNCHANGED <<arg, ret>>

MongoWithdrawFindUser ==
  /\ \E r \in Requests : WithdrawFindUser(r)
  /\ UNCHANGED <<arg, ret>>

MongoWithdrawUpdateBalance ==
  /\ \E r \in Requests : WithdrawUpdateBalance(r)
  /\ UNCHANGED <<arg, ret>>

MongoSlotsParse ==
  /\ storageImpl = "mongo"
  /\ \E r \in Requests, bet \in RaceBets : SlotsParse(r, 1, 1, bet)
  /\ UNCHANGED <<arg, ret>>

MongoSlotsGetGame ==
  /\ \E r \in Requests :
       \E reels \in Drawn(inflight[r].pc = "slots:getGame",
                          TopSymbols \X TopSymbols \X TopSymbols) :
         SlotsGetGame(r, reels)
  /\ UNCHANGED <<arg, ret>>

MongoSlotsCreateGameSession ==
  /\ \E r \in Requests : SlotsCreateGameSession(r)
  /\ UNCHANGED <<arg, ret>>

MongoSlotsGetUser ==
  /\ \E r \in Requests : SlotsGetUser(r)
  /\ UNCHANGED <<arg, ret>>

NextBalanceRace ==
  \/ MemWithdraw
  \/ MemSlotsPlay
  \/ MongoWithdrawCheck
  \/ MongoWithdrawCreateTransaction
  \/ MongoWithdrawFindUser
  \/ MongoWithdrawUpdateBalance
  \/ MongoSlotsParse
  \/ MongoSlotsGetGame
  \/ MongoSlotsCreateGameSession
  \/ MongoSlotsGetUser

SpecBalanceRace == InitBalanceRace /\ [][NextBalanceRace]_vars

-----------------------------------------------------------------------------
(* One blackjack round: a deal, then the action requests the client sends  *)
(* for it.  arg is the gameState the client holds: the one the deal        *)
(* returned, or the one a later in_progress response returned.  The client *)
(* may send a gameState again.                                             *)

InitRound ==
  /\ storageImpl \in {"mem", "mongo"}
  /\ balance = [u \in Users |-> IF u = 1 THEN RaceStartBalance ELSE 0]
  /\ transactions = <<[userId |-> 1, amount |-> RaceStartBalance, frac |-> 0,
                       type |-> "deposit", status |-> "completed", gameId |-> 0]>>
  /\ games = IF storageImpl = "mem" THEN MemDefaultGames ELSE MongoDefaultGames
  /\ gameSessions = <<>>
  /\ resp = NoResp
  /\ inflight = NoneInFlight
  /\ arg = <<>>
  /\ ret = <<>>

RoundDeal ==
  /\ arg = <<>>
  /\ \E c \in TopCards \X TopCards \X {"6"} \X TopCards :
       /\ BlackjackDeal(1, 3, 1000, c[1], c[2], c[3], c[4])
       /\ arg' = [playerHand |-> <<c[1], c[2]>>, dealerUp |-> c[3],
                  deckLen |-> 48, bet |-> 1000]
  /\ UNCHANGED <<ret, inflight>>

RoundAction ==
  /\ arg # <<>>
  /\ Len(gameSessions) < MaxSessions
  /\ \E action \in {"hit", "stand", "double"} :
       \E run \in ActionRuns(TopCards, action, arg.playerHand, arg.dealerUp,
                             arg.deckLen) :
         /\ BlackjackAction(1, 3, action, arg.playerHand, arg.dealerUp,
                            arg.deckLen, arg.bet, run)
         /\ \/ arg' = arg
            \/ /\ resp'.code = 200
               /\ resp'.status = "in_progress"
               /\ Len(run.playerHand) <= MaxHandLen
               /\ arg' = [arg EXCEPT !.playerHand = run.playerHand,
                                     !.deckLen = arg.deckLen - 3]
  /\ UNCHANGED <<ret, inflight>>

NextRound ==
  \/ RoundDeal
  \/ RoundAction

SpecRound == InitRound /\ [][NextRound]_vars

-----------------------------------------------------------------------------
(* Deposits of positive amounts, slots plays and roulette plays, one       *)
(* request at a time, from construction; the house edge is the default     *)
(* or, where an admin can have changed it, any of StartEdges.              *)

PlayDeposits == {1000, 2000}

PlayBets == {1000, 2000, 5000}

InitPlay ==
  /\ \E impl \in {"mem", "mongo"} :
       /\ storageImpl = impl
       /\ \E e \in (IF impl = "mem" THEN {MemDefaultGames[1].houseEdge}
                     ELSE StartEdges) :
            games = [i \in 1..3 |->
                       [(IF impl = "mem" THEN MemDefaultGames
                         ELSE MongoDefaultGames)[i] EXCEPT !.houseEdge = e]]
  /\ balance = [u \in Users |-> 0]
  /\ transactions = <<>>
  /\ gameSessions = <<>>
  /\ resp = NoResp
  /\ inflight = NoneInFlight
  /\ arg = <<>>
  /\ ret = <<>>

PlayDeposit ==
  /\ NumDeposits <= MaxDeposits
  /\ \E u \in Players, a \in PlayDeposits : Deposit(u, AmountString(a))
  /\ UNCHANGED <<arg, ret, inflight>>

PlaySlots ==
  /\ Len(gameSessions) < MaxSessions
  /\ \E u \in Players, g \in {1, 2}, bet \in PlayBets :
       \E reels \in Drawn(ValidateBet(u, g, bet, "slots") = 0,
                          TopSymbols \X TopSymbols \X TopSymbols) :
         SlotsPlay(u, g, bet, reels)
  /\ UNCHANGED <<arg, ret, inflight>>

PlayRoulette ==
  /\ Len(gameSessions) < MaxSessions
  /\ \E u \in Players, g \in {2}, bet \in PlayBets, betType \in {"red", "number"},
        betNumber \in {{}, {17}} :
       \E result \in Drawn(ValidateBet(u, g, bet, "roulette") = 0, TopNumbers) :
         RoulettePlay(u, g, bet, betType, betNumber, result)
  /\ UNCHANGED <<arg, ret, inflight>>

NextPlay ==
  \/ PlayDeposit
  \/ PlaySlots
  \/ PlayRoulette

SpecPlay == InitPlay /\ [][NextPlay]_vars

-----------------------------------------------------------------------------
(* Settlement on its own: storage.createGameSession called with outcome    *)
(* payloads, the same payload possibly more than once.  A payload's status *)
(* field carries its result.                                               *)

SettlePayloads ==
  [userId : Users, gameId : {1, 2}, bet : {1000}, status : {"none"},
   win : {-1000, 0, 4000}]

Settle ==
  /\ Len(gameSessions) < MaxSessions
  /\ \E session \in SettlePayloads : createGameSession(session)
  /\ UNCHANGED <<storageImpl, games, resp, arg, ret, inflight>>

SpecSettle == Init /\ [][Settle]_vars

-----------------------------------------------------------------------------
(* The outcome rules on their own: arg is the drawn outcome, ret the       *)
(* result of applying the rule to it (<<>> until it has been applied).     *)

InitSlots ==
  /\ LedgerStart("mem")
  /\ arg \in Symbols \X Symbols \X Symbols
  /\ ret = <<>>

Spin ==
  /\ ret = <<>>
  /\ ret' = <<SlotsMultiplier(arg)>>
  /\ UNCHANGED <<arg, ledger>>

SpecSlots == InitSlots /\ [][Spin]_vars

InitRoulette ==
  /\ LedgerStart("mem")
  /\ arg \in {a \in [betType : BetTypes,
                     betNumber : {{}} \cup {{n} : n \in WheelNumbers},
                     result : WheelNumbers] :
                a.betType = "number" => a.betNumber # {}}
  /\ ret = <<>>

Wheel ==
  /\ ret = <<>>
  /\ ret' = <<RouletteOutcome(arg.betType, arg.betNumber, arg.result)>>
  /\ UNCHANGED <<arg, ledger>>

SpecRoulette == InitRoulette /\ [][Wheel]_vars

InitHand ==
  /\ LedgerStart("mem")
  /\ arg \in UNION {[1..n -> Values] : n \in 0..MaxHandLen}
  /\ ret = <<>>

Evaluate ==
  /\ ret = <<>>
  /\ ret' = <<[deal |-> calculateHandValueDeal(arg),
               action |-> calculateHandValueAction(arg)]>>
  /\ UNCHANGED <<arg, ledger>>

SpecHand == InitHand /\ [][Evaluate]_vars

-----------------------------------------------------------------------------
(* Outcome rules: properties *)

\* C4: every triple of reel symbols has one raw multiplier, in
\* {0,2,10,25,50,100}: 100 for three sevens, 50 for three money bags, 25 for
\* three stars, 10 for three of any other symbol, 2 when exactly two reels
\* are equal (whichever two), 0 when all three differ.
SlotsPayoutTable ==
  ret # <<>> =>
    LET m == ret[1]
        kinds == Cardinality({arg[1], arg[2], arg[3]})
    IN /\ m \in {0, 2, 10, 25, 50, 100}
       /\ (kinds = 1 /\ arg[1] = "seven") => m = 100
       /\ (kinds = 1 /\ arg[1] = "moneybag") => m = 50
       /\ (kinds = 1 /\ arg[1] = "star") => m = 25
       /\ (kinds = 1 /\ arg[1] \notin {"seven", "moneybag", "star"}) => m = 10
       /\ kinds = 2 => m = 2
       /\ kinds = 3 => m = 0
       /\ Cardinality(Symbols) = 8

SlotsOuterPairSeen ==
  /\ ret = <<2>>
  /\ arg[1] = arg[3]
  /\ arg[1] # arg[2]

\* C5: for every wheel result r in 0..36 and bet type: number wins iff r is
\* the bet number, paying 36; red wins iff r is one of the 18 red numbers;
\* black iff r is non-zero and not red; even iff r is non-zero and even; odd
\* iff r is odd; high iff 19..36; low iff 1..18; these six pay 2; and 0 wins
\* none of the six.
RouletteWinTable ==
  ret # <<>> =>
    LET r == arg.result
        t == arg.betType
        red == {1, 3, 5, 7, 9, 12, 14, 16, 18, 19, 21, 23, 25, 27, 30, 32, 34, 36}
        wins == CASE t = "number" -> arg.betNumber = {r}
                  [] t = "red" -> r \in red
                  [] t = "black" -> r # 0 /\ r \notin red
                  [] t = "even" -> \E k \in 1..18 : r = 2 * k
                  [] t = "odd" -> \E k \in 0..17 : r = 2 * k + 1
                  [] t = "high" -> r \in 19..36
                  [] t = "low" -> r \in 1..18
    IN /\ ret[1].win <=> wins
       /\ ret[1].win => ret[1].multiplier = IF t = "number" THEN 36 ELSE 2
       /\ (r = 0 /\ t # "number") => ~ret[1].win
       /\ Cardinality(red) = 18

RouletteBlack17Wins ==
  /\ ret # <<>>
  /\ arg.betType = "black"
  /\ arg.result = 17
  /\ ret[1].win
  /\ ret[1].multiplier = 2

\* C8: calculateHandValue is the sum with number cards at face value, J/Q/K
\* as 10 and aces as 11, lowered by 10 per ace while it exceeds 21 and an
\* ace still counts 11: 21 for {A,K}, 12 for {A,A}, above 21 only with every
\* ace counted as 1; the deal copy and the action copy agree.
HandValueRule ==
  ret # <<>> =>
    LET n(v) == Cardinality({i \in DOMAIN arg : arg[i] = v})
        hard == n("A") + 2 * n("2") + 3 * n("3") + 4 * n("4") + 5 * n("5")
                + 6 * n("6") + 7 * n("7") + 8 * n("8") + 9 * n("9")
                + 10 * (n("10") + n("J") + n("Q") + n("K"))
        soft == {hard + 10 * k : k \in 0..n("A")}
        v == ret[1].deal
    IN /\ v \in soft
       /\ v > 21 => v = hard
       /\ \A w \in soft : w <= 21 => (v >= w /\ v <= 21)
       /\ arg = <<"A", "K">> => v = 21
       /\ arg = <<"A", "A">> => v = 12
       /\ ret[1].action = v

HandTwoAcesDemoted ==
  /\ ret # <<>>
  /\ Len(arg) = 3
  /\ Cardinality({i \in DOMAIN arg : arg[i] = "A"}) = 2
  /\ ret[1].deal = 12

-----------------------------------------------------------------------------
(* Settlement: properties *)

GameKinds == {"slots", "roulette", "deal", "action"}

\* C1: under either storage implementation, a step stores a GameSession
\* exactly when it applies that session's win to its user's balance: the new
\* session's win is added to that user's balance (and to no other), and no
\* game request changes a balance without storing a session.
SessionAppliesWinOnce ==
  [][ /\ Len(gameSessions') = Len(gameSessions) + 1 =>
           LET s == gameSessions'[Len(gameSessions')] IN
             balance' = [balance EXCEPT ![s.userId] = balance[s.userId] + s.win]
      /\ (resp'.kind \in GameKinds /\ balance' # balance) =>
           Len(gameSessions') = Len(gameSessions) + 1
    ]_vars

\* C2: the win/loss transactions are, in order, one per game session: same
\* user and game, amount equal to the session's win, status completed, type
\* win when the win is positive and loss otherwise; so there are as many of
\* them as game sessions.
DerivedTransactionPerSession ==
  LET derived == SelectSeq(transactions, LAMBDA t : t.type \in {"win", "loss"}) IN
    /\ Len(derived) = Len(gameSessions)
    /\ \A i \in DOMAIN gameSessions :
         /\ derived[i].userId = gameSessions[i].userId
         /\ derived[i].gameId = gameSessions[i].gameId
         /\ derived[i].amount = gameSessions[i].win
         /\ derived[i].status = "completed"
         /\ derived[i].type = IF gameSessions[i].win > 0 THEN "win" ELSE "loss"

\* C3: an accepted slots or roulette play with bet b at house edge e and raw
\* multiplier m settles b * m * (100 - e) / 100 - b, and the user's balance
\* after the request is the balance before plus that amount, to 2 decimals.
PlaySettlesNetWin ==
  (resp.kind \in {"slots", "roulette"} /\ resp.code = 200) =>
    /\ resp.netWin = resp.bet * resp.rawMultiplier * (100 - resp.houseEdge)
                     - resp.bet * 100
    /\ gameSessions[Len(gameSessions)].win = ToFixed2(resp.netWin)
    /\ balance[resp.userId] = resp.reqBalance + ToFixed2(resp.netWin)

-----------------------------------------------------------------------------
(* Blackjack: properties *)

\* C6: a deal whose first four cards give a 2-card 21 to either side is
\* resolved in the deal request with exactly one GameSession: player only ->
\* player_blackjack, net +1.5 * bet; dealer only -> dealer_blackjack, net
\* -bet; both -> push, net 0.  Without a natural the status is in_progress,
\* no GameSession or Transaction is created and the balance is unchanged.
DealNaturalResolution ==
  (resp.kind = "deal" /\ resp.code = 200) =>
    LET playerNatural == resp.playerCards = 2 /\ resp.playerValue = 21
        dealerNatural == resp.dealerCards = 2 /\ resp.dealerValue = 21
        recorded(status) ==
          /\ resp.status = status
          /\ Len(gameSessions) = 1
          /\ gameSessions[1].status = status
          /\ gameSessions[1].userId = resp.userId
          /\ gameSessions[1].bet = resp.bet
    IN /\ (playerNatural /\ ~dealerNatural) =>
            (recorded("player_blackjack") /\ 2 * gameSessions[1].win = 3 * resp.bet)
       /\ (dealerNatural /\ ~playerNatural) =>
            (recorded("dealer_blackjack") /\ gameSessions[1].win = -resp.bet)
       /\ (playerNatural /\ dealerNatural) =>
            (recorded("push") /\ gameSessions[1].win = 0)
       /\ (~playerNatural /\ ~dealerNatural) =>
            /\ resp.status = "in_progress"
            /\ gameSessions = <<>>
            /\ \A i \in DOMAIN transactions : transactions[i].type = "deposit"
            /\ balance[resp.userId] = resp.reqBalance

DealBothNaturals ==
  /\ resp.kind = "deal"
  /\ resp.code = 200
  /\ resp.playerValue = 21
  /\ resp.dealerValue = 21
  /\ resp.status = "push"
  /\ Len(gameSessions) = 1

\* C7: whenever an action reaches the dealer turn, the dealer has drawn up to
\* a value of 17 or more and the round resolves by the totals: dealer above
\* 21 -> dealer_bust, net +bet scaled by (100 - houseEdge)/100; dealer above
\* player -> dealer_wins, net -bet; dealer below player -> player_wins, net
\* +bet scaled; equal -> push, net 0.
DealerTurnResolution ==
  (resp.kind = "action" /\ resp.code = 200 /\ resp.dealerTurn) =>
    LET dealer == resp.dealerValue
        player == resp.playerValue
        scaled == resp.bet * (100 - resp.houseEdge)
    IN /\ dealer >= 17
       /\ dealer > 21 => (resp.status = "dealer_bust" /\ resp.netWin = scaled)
       /\ (dealer <= 21 /\ dealer > player) =>
            (resp.status = "dealer_wins" /\ resp.netWin = -(resp.bet * 100))
       /\ (dealer <= 21 /\ dealer < player) =>
            (resp.status = "player_wins" /\ resp.netWin = scaled)
       /\ (dealer <= 21 /\ dealer = player) =>
            (resp.status = "push" /\ resp.netWin = 0)
       /\ gameSessions[Len(gameSessions)].win = ToFixed2(resp.netWin)

\* C9: a deal returns player_blackjack, dealer_blackjack, push or in_progress;
\* an action returns in_progress, player_bust, dealer_bust, dealer_wins,
\* player_wins or push; dealer_turn is never returned or recorded; and a
\* request records a GameSession iff the status it returns is terminal (a
\* rejected request returns no status and records nothing).
BlackjackStateMachine ==
  resp.kind \in {"deal", "action"} =>
    /\ (resp.code = 200 /\ resp.kind = "deal") =>
         resp.status \in {"player_blackjack", "dealer_blackjack", "push", "in_progress"}
    /\ (resp.code = 200 /\ resp.kind = "action") =>
         resp.status \in {"in_progress", "player_bust", "dealer_bust",
                          "dealer_wins", "player_wins", "push"}
    /\ resp.code # 200 => resp.status = "none"
    /\ Len(gameSessions) <= 1
    /\ Len(gameSessions) = 1 <=> resp.status \notin {"none", "in_progress"}
    /\ \A i \in DOMAIN gameSessions :
         /\ gameSessions[i].status = resp.status
         /\ gameSessions[i].status # "dealer_turn"

DealerTurnEndsInPush ==
  /\ resp.kind = "action"
  /\ resp.code = 200
  /\ resp.dealerTurn
  /\ resp.status = "push"
  /\ Len(gameSessions) = 1
  /\ gameSessions[1].status = "push"

\* C10: every terminal blackjack resolution, in the deal request or in an
\* action request, multiplies a positive net amount by (100 - houseEdge)/100
\* and leaves a zero or negative net amount as it is.
HouseEdgeOnEveryPositiveNet ==
  (resp.kind \in {"deal", "action"} /\ resp.code = 200 /\ resp.status # "in_progress") =>
    LET unscaled ==
          CASE resp.status = "player_blackjack" -> resp.bet * 150
            [] resp.status \in {"dealer_bust", "player_wins"} -> resp.bet * 100
            [] resp.status \in {"dealer_blackjack", "dealer_wins", "player_bust"} ->
                 -(resp.bet * 100)
            [] OTHER -> 0
    IN /\ 100 * resp.netWin = IF unscaled > 0 THEN unscaled * (100 - resp.houseEdge)
                              ELSE 100 * unscaled
       /\ gameSessions[Len(gameSessions)].win = ToFixed2(resp.netWin)

\* C11: an accepted hit adds exactly one card to the player's hand; if the
\* new hand value exceeds 21 the round is player_bust with net -bet, not
\* scaled by the house edge, and one GameSession is recorded; otherwise the
\* status is in_progress, no GameSession or Transaction is created and the
\* balance is unchanged.
HitDrawsOneCard ==
  (resp.kind = "action" /\ resp.code = 200 /\ resp.action = "hit") =>
    /\ resp.playerCards = resp.reqPlayerCards + 1
    /\ resp.playerValue > 21 =>
         /\ resp.status = "player_bust"
         /\ resp.netWin = -(resp.reqBet * 100)
         /\ Len(gameSessions) = 1
         /\ gameSessions[1].status = "player_bust"
         /\ gameSessions[1].win = -resp.reqBet
    /\ resp.playerValue <= 21 =>
         /\ resp.status = "in_progress"
         /\ gameSessions = <<>>
         /\ \A i \in DOMAIN transactions : transactions[i].type = "deposit"
         /\ balance[resp.userId] = resp.reqBalance

\* C12: a double is accepted only when the submitted player hand has exactly
\* 2 cards and the user's balance covers the doubled bet; a rejected action
\* creates no GameSession or Transaction and leaves the balance unchanged.
DoubleOnlyAsFirstAction ==
  resp.kind = "action" =>
    /\ (resp.code = 200 /\ resp.action = "double") =>
         /\ resp.reqPlayerCards = 2
         /\ resp.reqBalance >= 2 * resp.reqBet
    /\ resp.code # 200 =>
         /\ gameSessions = <<>>
         /\ \A i \in DOMAIN transactions : transactions[i].type = "deposit"
         /\ balance[resp.userId] = resp.reqBalance

\* C13: an accepted double settles with exactly twice the submitted bet, adds
\* exactly one card to the player's hand and never returns in_progress: it is
\* player_bust with net -2 * bet when the hand exceeds 21, and otherwise the
\* dealer-turn outcome for the doubled bet.
DoubleSettlesTwiceTheBet ==
  (resp.kind = "action" /\ resp.code = 200 /\ resp.action = "double") =>
    LET turn == DealerTurnResult(resp.dealerValue, resp.playerValue, 2 * resp.reqBet) IN
    /\ resp.bet = 2 * resp.reqBet
    /\ resp.playerCards = resp.reqPlayerCards + 1
    /\ resp.status # "in_progress"
    /\ Len(gameSessions) = 1
    /\ gameSessions[1].bet = 2 * resp.reqBet
    /\ resp.playerValue > 21 =>
         (resp.status = "player_bust" /\ resp.netWin = -(2 * resp.reqBet * 100))
    /\ resp.playerValue <= 21 =>
         /\ resp.dealerTurn
         /\ resp.status = turn[1]
         /\ 100 * resp.netWin = IF turn[2] > 0 THEN turn[2] * (100 - resp.houseEdge)
                                ELSE 100 * turn[2]

-----------------------------------------------------------------------------
(* Wallet: properties *)

\* C14: a withdraw request succeeds only for a positive amount a that does
\* not exceed the user's balance; a successful one appends exactly one
\* withdrawal transaction with status pending and amount -a and lowers the
\* balance by exactly a; a request with a non-positive amount or an amount
\* above the balance leaves balances and transactions unchanged.
WithdrawOnlyPositiveWithinBalance ==
  [][resp'.kind = "withdraw" =>
       LET u == resp'.userId
           a == resp'.amount
       IN /\ resp'.code = 201 =>
               /\ a > 0
               /\ a <= balance[u]
               /\ transactions' = Append(transactions,
                    [userId |-> u, amount |-> -a, frac |-> 0, type |-> "withdrawal",
                     status |-> "pending", gameId |-> 0])
               /\ balance' = [balance EXCEPT ![u] = balance[u] - a]
          /\ (a <= 0 \/ a > balance[u]) =>
               /\ resp'.code # 201
               /\ balance' = balance
               /\ transactions' = transactions
    ]_vars

\* C15: a deposit request succeeds only for a positive amount; a successful
\* one appends exactly one deposit transaction with status completed and
\* raises the user's balance by exactly the amount; a request with a zero or
\* negative amount is rejected and leaves balances and transactions
\* unchanged.
DepositOnlyPositive ==
  [][resp'.kind = "deposit" =>
       LET u == resp'.userId
           a == resp'.amount
       IN /\ resp'.code = 201 =>
               /\ a > 0
               /\ transactions' = Append(transactions,
                    [userId |-> u, amount |-> a, frac |-> 0, type |-> "deposit",
                     status |-> "completed", gameId |-> 0])
               /\ balance' = [balance EXCEPT ![u] = balance[u] + a]
          /\ a <= 0 =>
               /\ resp'.code = 400
               /\ balance' = balance
               /\ transactions' = transactions
    ]_vars

\* C16: for a pending withdrawal whose stored amount has magnitude a, an
\* admin's approve sets its status to completed and changes no balance; an
\* admin's reject sets its status to rejected, credits the owning user's
\* balance by exactly a and changes no other balance.
ApproveRejectPendingWithdrawal ==
  [][(/\ resp'.kind \in {"approve", "reject"}
      /\ resp'.code = 200
      /\ transactions[resp'.transactionId].type = "withdrawal"
      /\ transactions[resp'.transactionId].status = "pending") =>
       LET id == resp'.transactionId
           a == Abs(transactions[id].amount)
           owner == transactions[id].userId
       IN IF resp'.kind = "approve"
          THEN /\ transactions' = [transactions EXCEPT ![id].status = "completed"]
               /\ balance' = balance
          ELSE /\ transactions' = [transactions EXCEPT ![id].status = "rejected"]
               /\ balance' = [balance EXCEPT ![owner] = balance[owner] + a]
    ]_vars

\* balance 100, withdraw 50, reject: balance 100 again, status rejected
WithdrawalOf50Rejected ==
  /\ resp.kind = "reject"
  /\ resp.code = 200
  /\ Len(transactions) = 3
  /\ \A i \in {1, 2} :
       transactions[i] = [userId |-> 1, amount |-> 5000, frac |-> 0, type |-> "deposit",
                          status |-> "completed", gameId |-> 0]
  /\ transactions[3] = [userId |-> 1, amount |-> -5000, frac |-> 0, type |-> "withdrawal",
                        status |-> "rejected", gameId |-> 0]
  /\ balance[1] = 10000

\* C17: a transaction's status changes only from pending to completed or to
\* rejected, and only for a withdrawal: a completed or rejected transaction
\* keeps its status, and deposit, win and loss transactions are created
\* completed and stay completed.
StatusChangesOnlyFromPending ==
  [][/\ \A id \in DOMAIN transactions :
          /\ id \in DOMAIN transactions'
          /\ transactions'[id].status # transactions[id].status =>
               /\ transactions[id].status = "pending"
               /\ transactions[id].type = "withdrawal"
               /\ transactions'[id].status \in {"completed", "rejected"}
     /\ \A id \in DOMAIN transactions' :
          transactions'[id].type \in {"deposit", "win", "loss"} =>
            transactions'[id].status = "completed"
    ]_vars

\* The sum of the amounts of the first n transactions of the given type that
\* belong to user u
RECURSIVE SumOfAmounts(_, _, _)
SumOfAmounts(u, type, n) ==
  IF n = 0 THEN 0
  ELSE SumOfAmounts(u, type, n - 1)
       + (IF transactions[n].userId = u /\ transactions[n].type = type
          THEN transactions[n].amount ELSE 0)

\* C18: under any interleaving of admin reject requests, a withdrawal's
\* amount is credited back to the user at most once (deposits and
\* withdrawals being positive, the balance never exceeds what the user
\* deposited), and a reject of a transaction that is not a pending
\* withdrawal credits no balance.
RejectCreditsAtMostOnce ==
  /\ \A u \in Users :
       balance[u] <= SumOfAmounts(u, "deposit", Len(transactions))
  /\ \A r \in Requests :
       inflight[r].credited =>
         (inflight[r].type = "withdrawal" /\ inflight[r].status = "pending")

\* C19: every user's balance is non-negative in every reachable state, with
\* requests handled one at a time.
BalanceNeverNegative == \A u \in Users : balance[u] >= 0

\* C20: a createGameSession call whose payload (userId, gameId, bet, result,
\* win) equals that of an earlier call is either rejected or leaves every
\* balance as it is, so the net win is applied only once.
ReplayAppliesOnce ==
  [][(/\ Len(gameSessions') = Len(gameSessions) + 1
      /\ \E i \in DOMAIN gameSessions :
           gameSessions[i] = gameSessions'[Len(gameSessions')]) =>
       balance' = balance
    ]_vars

\* C21: a slots, roulette or deal request is rejected with an error, creates
\* no GameSession and no Transaction and leaves the balance alone whenever the
\* game id is unknown, the game is inactive, its type is not the endpoint's,
\* the bet is under minBet or over maxBet, or the bet exceeds the balance read
\* when the request starts; an accepted request has minBet <= bet <= maxBet
\* and bet <= balance.
InvalidBetRejected ==
  resp.kind \in {"slots", "roulette", "deal"} =>
    LET g == resp.gameId
        type == IF resp.kind = "deal" THEN "blackjack" ELSE resp.kind
        bad == \/ g \notin DOMAIN games
               \/ ~games[g].isActive
               \/ games[g].type # type
               \/ resp.bet < games[g].minBet
               \/ resp.bet > games[g].maxBet
               \/ resp.bet > resp.reqBalance
    IN /\ bad => /\ resp.code \in {400, 404}
                 /\ gameSessions = <<>>
                 /\ \A i \in DOMAIN transactions : transactions[i].type = "deposit"
                 /\ balance[resp.userId] = resp.reqBalance
       /\ resp.code = 200 => /\ games[g].minBet <= resp.bet
                             /\ resp.bet <= games[g].maxBet
                             /\ resp.bet <= resp.reqBalance

\* a deal at a deactivated blackjack table has been turned away
InactiveGameRejected ==
  /\ resp.kind = "deal"
  /\ resp.code = 404
  /\ resp.gameId \in DOMAIN games
  /\ ~games[resp.gameId].isActive
  /\ games[resp.gameId].minBet <= resp.bet
  /\ resp.bet <= resp.reqBalance

SetHouseEdgeOutcomes ==
  [][(resp'.kind = "edge" /\ resp'.code # 403) =>
       (IF resp'.houseEdge < 0 \/ resp'.houseEdge > 100
        THEN resp'.code = 400 /\ games' = games
        ELSE IF resp'.gameId \notin DOMAIN games
        THEN resp'.code = 404 /\ games' = games
        ELSE /\ resp'.code = 200
             /\ games' = [games EXCEPT ![resp'.gameId].houseEdge = resp'.houseEdge])]_vars

\* C24: over any sequence of the admin's edge and status requests, starting
\* from the default games, every game has 0 <= houseEdge <= 100 and
\* minBet <= maxBet.
GameConfigInRange ==
  \A g \in DOMAIN games :
    /\ 0 <= games[g].houseEdge
    /\ games[g].houseEdge <= 100
    /\ games[g].minBet <= games[g].maxBet

\* the admin has moved one edge to each end of the range and closed a table
EdgesMovedAndTableClosed ==
  /\ \E g \in DOMAIN games : games[g].houseEdge = 0
  /\ \E g \in DOMAIN games : games[g].houseEdge = 100
  /\ \E g \in DOMAIN games : ~games[g].isActive
  /\ resp.kind = "edge"
  /\ resp.code = 400

RECURSIVE SumNotRejected(_, _)
SumNotRejected(u, n) ==
  IF n = 0 THEN 0
  ELSE SumNotRejected(u, n - 1)
       + (IF transactions[n].userId = u /\ transactions[n].status # "rejected"
          THEN TransactionValue(transactions[n]) ELSE 0)

\* C26: with MemStorage and requests handled one at a time, after any
\* sequence of deposits, withdrawals, admin approves and rejects and game
\* settlements, every user's balance is the initial balance (0.00) plus the
\* sum of the amounts of the user's transactions that are not rejected.
BalanceIsSumOfTransactions ==
  storageImpl = "mem" =>
    \A u \in Users :
      ParseFloat(balance[u]) = SumNotRejected(u, Len(transactions))

\* C27: a blackjack round is settled at most once: whatever action requests
\* the client sends with the round's gameState, at most one GameSession is
\* created for the one round that was dealt, and a round settled at the deal
\* or by an earlier action is not settled again.
RoundSettledAtMostOnce == Len(gameSessions) <= 1

\* C28: a GameSession created by the action endpoint references a game that
\* exists, is active and is a blackjack game, and its bet is positive and is
\* the bet a deal accepted (within the game's limits and the balance), or
\* twice it for a double.
ActionSettlesAcceptedBet ==
  (/\ resp.kind = "action"
   /\ resp.code = 200
   /\ gameSessions # <<>>) =>
    LET session == gameSessions[Len(gameSessions)]
        g == session.gameId
    IN /\ g \in DOMAIN games
       /\ games[g].isActive
       /\ games[g].type = "blackjack"
       /\ session.bet > 0
       /\ session.bet = (IF resp.action = "double" THEN 2 ELSE 1) * resp.reqBet
       /\ games[g].minBet <= resp.reqBet
       /\ resp.reqBet <= games[g].maxBet
       /\ resp.reqBet <= resp.reqBalance

====
